---- MODULE Spec2Model ----
(***************************************************************************)
(* Water Treatment Designer: the client flowsheet store                    *)
(* (store/flowsheetStore.ts), the canvas and panel handlers that drive it, *)
(* and the mass-balance solver behind POST /calculate/flowsheet.           *)
(*                                                                         *)
(* Numbers with decimals are kept in hundredths (1.5 bar is 150).          *)
(* An equipment id `${TYPE}-${NNN}` is the pair <<type, n>>; a connection  *)
(* id `${src}-${srcPort}-${tgt}-${tgtPort}` is the 4-tuple; a stream id    *)
(* `stream-${Date.now()}` is the clock value.                              *)
(***************************************************************************)
EXTENDS Integers, Sequences, FiniteSets, TLC

(* ---------------------------- bounds ----------------------------------- *)
MaxEquipment == 2
MaxUnits == 1
MaxConnections == 2
MaxInFlight == 1
MaxClock == 1
MaxTimers == 1
MaxValidations == 1
MaxOverlap == 2

(* ------------------------ Equipment.ts --------------------------------- *)
EQUIPMENT_PORTS ==
  [ultrafiltration |->
     [feed_inlet         |-> [type |-> "inlet",  streamTypes |-> {"feed", "pretreated_water"}],
      permeate_outlet    |-> [type |-> "outlet", streamTypes |-> {"permeate", "product_water"}],
      concentrate_outlet |-> [type |-> "outlet", streamTypes |-> {"concentrate", "waste_water"}],
      backwash_inlet     |-> [type |-> "inlet",  streamTypes |-> {"backwash_water"}],
      cip_inlet          |-> [type |-> "inlet",  streamTypes |-> {"cleaning_chemicals"}]],
   tank |->
     [inlet  |-> [type |-> "inlet",  streamTypes |-> {"feed", "product_water", "waste_water"}],
      outlet |-> [type |-> "outlet", streamTypes |-> {"feed", "product_water", "waste_water"}]],
   pump |->
     [suction   |-> [type |-> "inlet",  streamTypes |-> {"feed", "product_water", "waste_water"}],
      discharge |-> [type |-> "outlet", streamTypes |-> {"feed", "product_water", "waste_water"}]],
   strainer |->
     [inlet  |-> [type |-> "inlet",  streamTypes |-> {"feed", "pretreated_water"}],
      outlet |-> [type |-> "outlet", streamTypes |-> {"feed", "pretreated_water"}],
      drain  |-> [type |-> "outlet", streamTypes |-> {"waste_water", "backwash_water"}]],
   feed_tank |->
     [inlet    |-> [type |-> "inlet",  streamTypes |-> {"feed", "municipal_water", "raw_water"}],
      outlet   |-> [type |-> "outlet", streamTypes |-> {"feed", "raw_water"}],
      overflow |-> [type |-> "outlet", streamTypes |-> {"overflow", "waste_water"}],
      drain    |-> [type |-> "outlet", streamTypes |-> {"waste_water", "drain"}]]]

(* ---------------------- EquipmentPalette.tsx --------------------------- *)
EQUIPMENT_TEMPLATES ==
  [ultrafiltration |->
     [membrane_area |-> 50000, transmembrane_pressure |-> 150, temperature |-> 2500,
      feed_concentration |-> 10, crossflow_velocity |-> 200, membrane_type |-> "PVDF",
      operating_hours |-> 0],
   tank     |-> [volume |-> 10000, height |-> 500, level |-> 7500],
   pump     |-> [discharge_pressure |-> 300, efficiency |-> 75, running |-> FALSE],
   strainer |-> [mesh_size |-> 100, pressure_drop |-> 10]]

\* The templates the model clicks on (a subset of the palette).
PaletteTypes == {"ultrafiltration", "strainer"}

\* Math.random() * 300 + 100, reduced to the values the model draws.
Positions == {100, 400}

EmptyMap == [x \in {} |-> x]

Remove(f, k) == [x \in DOMAIN f \ {k} |-> f[x]]

Put(f, k, v) == [x \in DOMAIN f \cup {k} |-> IF x = k THEN v ELSE f[x]]

VARIABLES
  equipment,          \* Record<string, Equipment>
  streams,            \* Record<string, Stream>
  connections,        \* Record<string, any>, in key insertion order
  calculations,
  streamProperties,
  isCalculating,
  lastCalculation,
  massBalanceValid,
  systemRecovery,
  errors,
  warnings,
  selectedEquipment,
  selectedStream,
  clock,              \* Date.now()
  timers,             \* pending setTimeout(recalculateFlowsheet, 100) callbacks
  validating,         \* validateFlowsheet calls that have not returned yet
  inflight,           \* requests sent to /calculate/flowsheet, not yet settled
  lastOp              \* the operation that produced the current state

vars == <<equipment, streams, connections, calculations, streamProperties,
          isCalculating, lastCalculation, massBalanceValid, systemRecovery,
          errors, warnings, selectedEquipment, selectedStream, clock,
          timers, validating, inflight, lastOp>>

\* null, for a selection
Null == <<>>

\* null, for lastCalculation (a time in ms otherwise)
NoDate == -1

Init ==
  /\ equipment = EmptyMap
  /\ streams = EmptyMap
  /\ connections = <<>>
  /\ calculations = EmptyMap
  /\ streamProperties = EmptyMap
  /\ isCalculating = FALSE
  /\ lastCalculation = NoDate
  /\ massBalanceValid = FALSE
  /\ systemRecovery = 0
  /\ errors = <<>>
  /\ warnings = <<>>
  /\ selectedEquipment = Null
  /\ selectedStream = Null
  /\ clock = 0
  /\ timers = 0
  /\ validating = <<>>
  /\ inflight = <<>>
  /\ lastOp = [op |-> "init"]

\* store.addEquipment
addEquipment(eq) ==
  /\ equipment' = Put(equipment, eq.id, eq)

\* Object.keys(equipment).filter(id => id.startsWith(TYPE)).length + 1
nextNumber(type) == Cardinality({id \in DOMAIN equipment : id[1] = type}) + 1

\* EquipmentPalette.handleAddEquipment
handleAddEquipment(type, pos) ==
  LET newEquipment == [id |-> <<type, nextNumber(type)>>, type |-> type,
                       position |-> pos, config |-> EQUIPMENT_TEMPLATES[type]]
  IN /\ addEquipment(newEquipment)
     /\ lastOp' = [op |-> "addEquipment", id |-> newEquipment.id,
                   before |-> DOMAIN equipment]
     /\ UNCHANGED <<streams, connections, calculations, streamProperties,
                    isCalculating, lastCalculation, massBalanceValid,
                    systemRecovery, errors, warnings, selectedEquipment,
                    selectedStream, clock, timers, validating, inflight>>

(* ------------------- recalculateFlowsheet: the request ----------------- *)
\* inlet_streams, had it collected the connections by their source
inlet_streamsBySource(conns, id) ==
  LET sel == SelectSeq(conns, LAMBDA c : c.sourceEquipmentId = id)
  IN [i \in 1..Len(sel) |-> sel[i].id]

\* equipmentStreams[id].inlet_streams: the keys of the connections into id,
\* in key order
inlet_streams(conns, id) ==
  LET sel == SelectSeq(conns, LAMBDA c : c.targetEquipmentId = id)
  IN [i \in 1..Len(sel) |-> sel[i].id]

\* equipmentStreams[id].outlet_streams: the keys of the connections out of id
outlet_streams(conns, id) ==
  LET sel == SelectSeq(conns, LAMBDA c : c.sourceEquipmentId = id)
  IN [i \in 1..Len(sel) |-> sel[i].id]

ConnKeys(conns) == {conns[i].id : i \in 1..Len(conns)}

ConnAt(conns, id) == conns[CHOOSE i \in 1..Len(conns) : conns[i].id = id]

\* cfg[key] || dflt
OrDefault(cfg, key, dflt) ==
  IF key \in DOMAIN cfg /\ cfg[key] # 0 THEN cfg[key] ELSE dflt

defaultStreamData(id, connection) ==
  [stream_id |-> id,
   source_equipment |-> connection.sourceEquipmentId,
   target_equipment |-> connection.targetEquipmentId,
   source_port |-> connection.sourcePort,
   target_port |-> connection.targetPort,
   flow_rate |-> 0, pressure |-> 100, temperature |-> 2500, concentration |-> 0,
   turbidity |-> 100, tss |-> 1000, tds |-> 50000, fog |-> 500, bod |-> 2000,
   cod |-> 5000, ph |-> 700, alkalinity |-> 10000, hardness |-> 15000,
   chloride |-> 5000, sulfate |-> 3000, nitrate |-> 1000, phosphate |-> 200,
   iron |-> 50, manganese |-> 10]

feedTankStreamData(d, cfg) ==
  [d EXCEPT !.flow_rate = OrDefault(cfg, "inflow_rate", 0),
            !.temperature = OrDefault(cfg, "temperature", 2500),
            !.turbidity = OrDefault(cfg, "turbidity", 100),
            !.tss = OrDefault(cfg, "tss", 1000),
            !.tds = OrDefault(cfg, "tds", 50000),
            !.fog = OrDefault(cfg, "fog", 500),
            !.bod = OrDefault(cfg, "bod", 2000),
            !.cod = OrDefault(cfg, "cod", 5000),
            !.ph = OrDefault(cfg, "ph", 700),
            !.alkalinity = OrDefault(cfg, "alkalinity", 10000),
            !.hardness = OrDefault(cfg, "hardness", 15000),
            !.chloride = OrDefault(cfg, "chloride", 5000),
            !.sulfate = OrDefault(cfg, "sulfate", 3000),
            !.nitrate = OrDefault(cfg, "nitrate", 1000),
            !.phosphate = OrDefault(cfg, "phosphate", 200),
            !.iron = OrDefault(cfg, "iron", 50),
            !.manganese = OrDefault(cfg, "manganese", 10)]

streamData(eqs, id, connection) ==
  LET src == connection.sourceEquipmentId
      d == defaultStreamData(id, connection)
  IN IF src \in DOMAIN eqs /\ eqs[src].type = "feed_tank"
       THEN feedTankStreamData(d, eqs[src].config)
       ELSE d

\* flowsheetData, had it copied the whole equipment object into the request
flowsheetDataWithPosition(eqs, conns) ==
  [equipment |->
     [id \in DOMAIN eqs |->
        [equipment_id |-> id,
         equipment_type |-> eqs[id].type,
         config |-> eqs[id].config,
         position |-> eqs[id].position,
         inlet_streams |-> inlet_streams(conns, id),
         outlet_streams |-> outlet_streams(conns, id)]],
   streams |-> [id \in ConnKeys(conns) |-> streamData(eqs, id, ConnAt(conns, id))],
   connections |-> conns]

\* the flowsheetData object posted to /calculate/flowsheet
flowsheetData(eqs, conns) ==
  [equipment |->
     [id \in DOMAIN eqs |->
        [equipment_id |-> id,
         equipment_type |-> eqs[id].type,
         config |-> eqs[id].config,
         inlet_streams |-> inlet_streams(conns, id),
         outlet_streams |-> outlet_streams(conns, id)]],
   streams |-> [id \in ConnKeys(conns) |-> streamData(eqs, id, ConnAt(conns, id))],
   connections |-> conns]

\* what a solve is a function of: equipment (id, type, config) and connections
Snapshot(eqs, conns) ==
  [equipment |-> [id \in DOMAIN eqs |->
                    [id |-> eqs[id].id, type |-> eqs[id].type, config |-> eqs[id].config]],
   connections |-> conns]

\* the backend's state for a request it has not looked at yet
NewSolve ==
  [pc |-> "received", maxIterations |-> 0, iterations |-> 0, flows |-> EmptyMap,
   outlets |-> EmptyMap, order |-> <<>>, recycle |-> {}, converged |-> FALSE,
   rejected |-> FALSE,
   diagnostics |-> <<>>]

\* the requests in flight when a solve starts from `snapshot`: one that was
\* built from another snapshot is no longer the solve of the latest flowsheet
Superseded(requests, snapshot) ==
  [j \in 1..Len(requests) |->
     [requests[j] EXCEPT !.superseded = requests[j].snapshot # snapshot]]

\* recalculateFlowsheet up to `await processApi.calculateFlowsheet(...)`,
\* run on the store contents eqs, conns
recalculateFlowsheet(eqs, conns) ==
  IF DOMAIN eqs = {}
    THEN /\ isCalculating' = FALSE
         /\ UNCHANGED <<errors, warnings, inflight>>
    ELSE /\ isCalculating' = TRUE
         /\ errors' = <<>>
         /\ warnings' = <<>>
         /\ inflight' = Append(Superseded(inflight, Snapshot(eqs, conns)),
                               [body |-> flowsheetData(eqs, conns),
                                snapshot |-> Snapshot(eqs, conns),
                                superseded |-> FALSE,
                                solve |-> NewSolve])

CanSend == Len(inflight) < MaxInFlight

\* a click on one of the palette's templates
PaletteClick(types, positions, max) ==
  \E type \in types, pos \in positions :
    /\ Cardinality(DOMAIN equipment) < max
    /\ handleAddEquipment(type, pos)

(* --------------------------- store actions ----------------------------- *)
\* removeEquipment, had it left the connections alone
removeEquipmentOnly(id) ==
  /\ equipment' = Remove(equipment, id)
  /\ selectedEquipment' = IF selectedEquipment = id THEN Null ELSE selectedEquipment
  /\ lastOp' = [op |-> "removeEquipment", id |-> id, before |-> ConnKeys(connections)]
  /\ UNCHANGED <<streams, connections, calculations, streamProperties, isCalculating,
                 lastCalculation, massBalanceValid, systemRecovery, errors,
                 warnings, selectedStream, clock, timers, validating, inflight>>

\* store.removeEquipment: the streams of the removed connections are kept
removeEquipment(id) ==
  /\ equipment' = Remove(equipment, id)
  /\ connections' = SelectSeq(connections,
                      LAMBDA c : ~(c.sourceEquipmentId = id \/ c.targetEquipmentId = id))
  /\ selectedEquipment' = IF selectedEquipment = id THEN Null ELSE selectedEquipment
  /\ lastOp' = [op |-> "removeEquipment", id |-> id, before |-> ConnKeys(connections)]
  /\ UNCHANGED <<streams, calculations, streamProperties, isCalculating,
                 lastCalculation, massBalanceValid, systemRecovery, errors,
                 warnings, selectedStream, clock, timers, validating, inflight>>

RemoveEquipment == \E id \in DOMAIN equipment : removeEquipment(id)

\* {...state.connections, [connectionId]: conn}: an existing key keeps its place
PutConn(conns, conn) ==
  IF conn.id \in ConnKeys(conns)
    THEN [i \in 1..Len(conns) |-> IF conns[i].id = conn.id THEN conn ELSE conns[i]]
    ELSE Append(conns, conn)

\* store.addConnection, with the recalculation it triggers
addConnection(sourceId, sourcePort, targetId, targetPort) ==
  LET connectionId == <<sourceId, sourcePort, targetId, targetPort>>
      streamId == clock
      conn == [id |-> connectionId, sourceEquipmentId |-> sourceId,
               sourcePort |-> sourcePort, targetEquipmentId |-> targetId,
               targetPort |-> targetPort, streamId |-> streamId]
      stream == [id |-> streamId, sourceEquipmentId |-> sourceId,
                 sourcePort |-> sourcePort, targetEquipmentId |-> targetId,
                 targetPort |-> targetPort,
                 properties |-> [flowRate |-> 0, pressure |-> 100,
                                 temperature |-> 2500, concentration |-> 0]]
  IN /\ connections' = PutConn(connections, conn)
     /\ streams' = Put(streams, streamId, stream)
     /\ recalculateFlowsheet(equipment, connections')
     /\ lastOp' = [op |-> "addConnection", id |-> connectionId,
                   blocked |-> FALSE]
     /\ UNCHANGED <<equipment, calculations, streamProperties, lastCalculation,
                    massBalanceValid, systemRecovery, selectedEquipment,
                    selectedStream, clock, timers, validating>>

\* EquipmentNode.renderPorts: one <Handle> per declared port,
\* type 'target' for an inlet and 'source' for an outlet
Handles(id) == DOMAIN EQUIPMENT_PORTS[equipment[id].type]

HandleType(id, port) ==
  IF EQUIPMENT_PORTS[equipment[id].type][port].type = "inlet" THEN "target" ELSE "source"

\* The Connection React Flow hands to onConnect for a drag from one handle to
\* another under connectionMode={ConnectionMode.Loose}: any two distinct
\* handles connect, and the handle the drag started on keeps its own role.
LooseConnection(fromNode, fromHandle, toNode, toHandle) ==
  IF HandleType(fromNode, fromHandle) = "target"
    THEN [source |-> toNode, sourceHandle |-> toHandle,
          target |-> fromNode, targetHandle |-> fromHandle]
    ELSE [source |-> fromNode, sourceHandle |-> fromHandle,
          target |-> toNode, targetHandle |-> toHandle]

\* FlowsheetCanvas.onConnect
onConnect(params) ==
  addConnection(params.source, params.sourceHandle, params.target, params.targetHandle)

\* a drag from one handle to another, when both nodes are on the canvas
Drag(g) ==
  /\ g.from \in DOMAIN equipment /\ g.to \in DOMAIN equipment
  /\ g.fromHandle \in Handles(g.from) /\ g.toHandle \in Handles(g.to)
  /\ g.from # g.to \/ g.fromHandle # g.toHandle
  /\ CanSend
  /\ LET params == LooseConnection(g.from, g.fromHandle, g.to, g.toHandle)
     IN /\ \/ Len(connections) < MaxConnections
           \/ <<params.source, params.sourceHandle,
                params.target, params.targetHandle>> \in ConnKeys(connections)
        /\ onConnect(params)

\* store.removeConnection
removeConnection(connectionId) ==
  /\ IF connectionId \in ConnKeys(connections)
       THEN /\ streams' = Remove(streams, ConnAt(connections, connectionId).streamId)
            /\ connections' = SelectSeq(connections, LAMBDA c : c.id # connectionId)
       ELSE UNCHANGED <<streams, connections>>
  /\ lastOp' = [op |-> "removeConnection", id |-> connectionId]
  /\ UNCHANGED <<equipment, calculations, streamProperties, isCalculating,
                 lastCalculation, massBalanceValid, systemRecovery, errors,
                 warnings, selectedEquipment, selectedStream, clock, timers, validating, inflight>>

RemoveConnection == \E id \in ConnKeys(connections) : removeConnection(id)

\* store.selectEquipment (onNodeClick)
selectEquipment(id) ==
  /\ selectedEquipment' = id
  /\ selectedStream' = Null
  /\ lastOp' = [op |-> "selectEquipment"]
  /\ UNCHANGED <<equipment, streams, connections, calculations, streamProperties,
                 isCalculating, lastCalculation, massBalanceValid, systemRecovery,
                 errors, warnings, clock, timers, validating, inflight>>

SelectEquipment == \E id \in DOMAIN equipment : selectEquipment(id)

\* store.selectStream (onEdgeClick)
selectStream(id) ==
  /\ selectedStream' = id
  /\ selectedEquipment' = Null
  /\ lastOp' = [op |-> "selectStream"]
  /\ UNCHANGED <<equipment, streams, connections, calculations, streamProperties,
                 isCalculating, lastCalculation, massBalanceValid, systemRecovery,
                 errors, warnings, clock, timers, validating, inflight>>

SelectStream == \E id \in ConnKeys(connections) : selectStream(id)

\* FlowsheetCanvas.onNodeDragStop: the position changes, nothing is recalculated
onNodeDragStop(id, pos) ==
  /\ id \in DOMAIN equipment
  /\ equipment' = [equipment EXCEPT ![id].position = pos]
  /\ lastOp' = [op |-> "drag"]
  /\ UNCHANGED <<streams, connections, calculations, streamProperties,
                 isCalculating, lastCalculation, massBalanceValid, systemRecovery,
                 errors, warnings, selectedEquipment, selectedStream, clock, timers, validating,
                 inflight>>

NodeDragStop ==
  \E id \in DOMAIN equipment, pos \in Positions :
    /\ equipment[id].position # pos
    /\ onNodeDragStop(id, pos)

\* Date.now() moves on
Tick ==
  /\ clock < MaxClock
  /\ clock' = clock + 1
  /\ lastOp' = [op |-> "tick"]
  /\ UNCHANGED <<equipment, streams, connections, calculations, streamProperties,
                 isCalculating, lastCalculation, massBalanceValid, systemRecovery,
                 errors, warnings, selectedEquipment, selectedStream, timers, validating,
                 inflight>>

(* ------------------------- PropertyPanel.tsx --------------------------- *)
\* min/max of the <PropertyInput> fields, per equipment type
PROPERTY_INPUTS ==
  [feed_tank |->
     [volume |-> <<100, 5000000>>, height |-> <<100, 5000>>, level |-> <<0, 10000>>,
      inflow_rate |-> <<0, 1000000>>, temperature |-> <<0, 5000>>,
      turbidity |-> <<0, 20000>>, tss |-> <<0, 100000>>, tds |-> <<0, 500000>>,
      fog |-> <<0, 10000>>, ph |-> <<400, 1100>>, alkalinity |-> <<0, 50000>>,
      hardness |-> <<0, 100000>>, chloride |-> <<0, 50000>>, sulfate |-> <<0, 30000>>,
      iron |-> <<0, 1000>>, manganese |-> <<0, 200>>, bod |-> <<0, 50000>>,
      cod |-> <<0, 100000>>, nitrate |-> <<0, 10000>>, phosphate |-> <<0, 2000>>],
   ultrafiltration |->
     [membrane_area |-> <<100, 1000000>>, transmembrane_pressure |-> <<10, 300>>,
      temperature |-> <<500, 6000>>, feed_concentration |-> <<0, 1000>>,
      crossflow_velocity |-> <<50, 500>>],
   tank |-> [volume |-> <<10, 1000000>>, height |-> <<50, 2000>>, level |-> <<0, 10000>>],
   pump |-> [discharge_pressure |-> <<100, 2000>>, efficiency |-> <<50, 90>>],
   strainer |-> EmptyMap]

\* what the user types into a number field: text that parses, or text that does not
NaN == [nan |-> TRUE, num |-> 0]

Typed(n) == [nan |-> FALSE, num |-> n]

\* parseFloat(e.target.value) || 0
parseFloatOrZero(text) == IF text.nan THEN 0 ELSE text.num

\* the value a field hands to handleConfigChange: the pump efficiency
\* field shows a percentage and stores value / 100
fieldValue(key, value) == IF key = "efficiency" THEN value \div 100 ELSE value

\* updateEquipment, had it built the request from the store it read before its set
updateEquipmentStale(id, config) ==
  /\ equipment' = Put(equipment, id, [equipment[id] EXCEPT !.config = config])
  /\ recalculateFlowsheet(equipment, connections)
  /\ UNCHANGED <<streams, connections, calculations, streamProperties,
                 lastCalculation, massBalanceValid, systemRecovery,
                 selectedEquipment, selectedStream, clock, timers, validating>>

\* store.updateEquipment with updates = {config}, and the recalculation it triggers
updateEquipment(id, config) ==
  /\ equipment' = Put(equipment, id, [equipment[id] EXCEPT !.config = config])
  /\ recalculateFlowsheet(equipment', connections)
  /\ UNCHANGED <<streams, connections, calculations, streamProperties,
                 lastCalculation, massBalanceValid, systemRecovery,
                 selectedEquipment, selectedStream, clock, timers, validating>>

\* PropertyPanel.handleConfigChange, called by a field's onChange
handleConfigChange(key, value) ==
  /\ selectedEquipment # Null
  /\ selectedEquipment \in DOMAIN equipment
  /\ LET selectedEq == equipment[selectedEquipment]
         updatedConfig == Put(selectedEq.config, key, value)
     IN /\ key \in DOMAIN PROPERTY_INPUTS[selectedEq.type]
        /\ updateEquipment(selectedEquipment, updatedConfig)
        /\ lastOp' = [op |-> "updateEquipment", id |-> selectedEquipment,
                      config |-> updatedConfig]

ConfigChange(edits) ==
  \E e \in edits :
    /\ CanSend
    /\ handleConfigChange(e[1], fieldValue(e[1], parseFloatOrZero(e[2])))

\* Toolbar: the Calculate button, disabled while isCalculating
Calculate ==
  /\ ~isCalculating
  /\ CanSend
  /\ recalculateFlowsheet(equipment, connections)
  /\ lastOp' = [op |-> "calculate"]
  /\ UNCHANGED <<equipment, streams, connections, calculations, streamProperties,
                 lastCalculation, massBalanceValid, systemRecovery,
                 selectedEquipment, selectedStream, clock, timers, validating>>

\* selectedEquipment ? equipment[selectedEquipment] : null, as a truth value
selectedEq == selectedEquipment # Null /\ selectedEquipment \in DOMAIN equipment

\* selectedStream ? connections[selectedStream] : null, as a truth value
selectedStreamData == selectedStream # Null /\ selectedStream \in ConnKeys(connections)

\* renderStreamProperties: nothing without the connection, else the stream view
renderStreamProperties == IF selectedStreamData THEN "stream properties" ELSE "null"

\* what the PropertyPanel component returns, its return statements in order
PropertyPanel ==
  IF ~selectedEq THEN "Select equipment to view properties"
  ELSE IF selectedStream # Null /\ selectedEquipment = Null THEN renderStreamProperties
  ELSE IF ~selectedEq THEN "Select equipment or stream to view properties"
  ELSE "equipment properties"

(* ------------------ the response of /calculate/flowsheet --------------- *)
\* an optional field of FlowsheetResponse
Some(v) == [present |-> TRUE, value |-> v]

None(v) == [present |-> FALSE, value |-> v]

\* field || dflt
OrElse(field, dflt) == IF field.present THEN field.value ELSE dflt

Diagnostic(code, severity) == [code |-> code, equipment_id |-> <<>>, severity |-> severity]

\* the values results are made of
ResultTags == {50, 90}

Payload(body, tag) ==
  [streams |-> [id \in DOMAIN body.streams |-> [flow_rate |-> tag]],
   equipment_results |-> [id \in DOMAIN body.equipment |-> [recovery |-> tag]],
   system_recovery |-> tag]

\* the responses the backend may give to a request
Responses(body) ==
  {[success |-> TRUE, converged |-> Some(c),
    streams |-> Some(Payload(body, t).streams),
    equipment_results |-> Some(Payload(body, t).equipment_results),
    system_recovery |-> Some(t),
    errors |-> Some(IF c THEN <<>> ELSE <<Diagnostic("ConvergenceError", "warning")>>)]
     : c \in BOOLEAN, t \in ResultTags}
  \cup
  {[success |-> TRUE, converged |-> None(FALSE), streams |-> None(EmptyMap),
    equipment_results |-> None(EmptyMap), system_recovery |-> None(0),
    errors |-> None(<<>>)]}
  \cup
  {[success |-> FALSE, converged |-> None(FALSE), streams |-> None(EmptyMap),
    equipment_results |-> None(EmptyMap), system_recovery |-> None(0),
    errors |-> e]
     : e \in {Some(<<Diagnostic("TopologyError", "error")>>), None(<<>>)}}

DropAt(s, i) == [j \in 1..(Len(s) - 1) |-> IF j < i THEN s[j] ELSE s[j + 1]]

\* onResult, had it set massBalanceValid from success
onResultValidOnSuccess(result) ==
  IF result.success
    THEN /\ calculations' = OrElse(result.equipment_results, EmptyMap)
         /\ streamProperties' = OrElse(result.streams, EmptyMap)
         /\ massBalanceValid' = result.success
         /\ systemRecovery' = OrElse(result.system_recovery, 0)
         /\ errors' = OrElse(result.errors, <<>>)
         /\ isCalculating' = FALSE
         /\ lastCalculation' = clock
    ELSE /\ errors' = OrElse(result.errors, <<>>)
         /\ isCalculating' = FALSE
         /\ UNCHANGED <<calculations, streamProperties, massBalanceValid,
                        systemRecovery, lastCalculation>>

\* onResult, had it stored results of converged solves only
onResultIfConverged(result) ==
  IF result.success /\ OrElse(result.converged, FALSE)
    THEN /\ calculations' = OrElse(result.equipment_results, EmptyMap)
         /\ streamProperties' = OrElse(result.streams, EmptyMap)
         /\ massBalanceValid' = TRUE
         /\ systemRecovery' = OrElse(result.system_recovery, 0)
         /\ errors' = OrElse(result.errors, <<>>)
         /\ isCalculating' = FALSE
         /\ lastCalculation' = clock
    ELSE /\ errors' = OrElse(result.errors, <<>>)
         /\ isCalculating' = FALSE
         /\ UNCHANGED <<calculations, streamProperties, massBalanceValid,
                        systemRecovery, lastCalculation>>

\* {...old, ...new}
Merged(old, new) ==
  [k \in DOMAIN old \cup DOMAIN new |-> IF k \in DOMAIN new THEN new[k] ELSE old[k]]

\* onResult, had it merged the returned results into the stored ones
onResultMerged(result) ==
  IF result.success
    THEN /\ calculations' = Merged(calculations, OrElse(result.equipment_results, EmptyMap))
         /\ streamProperties' = Merged(streamProperties, OrElse(result.streams, EmptyMap))
         /\ massBalanceValid' = OrElse(result.converged, FALSE)
         /\ systemRecovery' = OrElse(result.system_recovery, 0)
         /\ errors' = OrElse(result.errors, <<>>)
         /\ isCalculating' = FALSE
         /\ lastCalculation' = clock
    ELSE /\ errors' = OrElse(result.errors, <<>>)
         /\ isCalculating' = FALSE
         /\ UNCHANGED <<calculations, streamProperties, massBalanceValid,
                        systemRecovery, lastCalculation>>

\* recalculateFlowsheet after the await, for a response that arrived
onResult(result) ==
  IF result.success
    THEN /\ calculations' = OrElse(result.equipment_results, EmptyMap)
         /\ streamProperties' = OrElse(result.streams, EmptyMap)
         /\ massBalanceValid' = OrElse(result.converged, FALSE)
         /\ systemRecovery' = OrElse(result.system_recovery, 0)
         /\ errors' = OrElse(result.errors, <<>>)
         /\ isCalculating' = FALSE
         /\ lastCalculation' = clock
    ELSE /\ errors' = OrElse(result.errors, <<>>)
         /\ isCalculating' = FALSE
         /\ UNCHANGED <<calculations, streamProperties, massBalanceValid,
                        systemRecovery, lastCalculation>>

\* the stored streams, had the solved flow rates been written into them
Solved(stored, conns, results) ==
  [t \in DOMAIN stored |->
     IF \E j \in 1..Len(conns) : conns[j].streamId = t /\ conns[j].id \in DOMAIN results
       THEN [stored[t] EXCEPT !.properties.flowRate =
               results[conns[CHOOSE j \in 1..Len(conns) : conns[j].streamId = t].id].flow_rate]
       ELSE stored[t]]

\* Resolve, had a successful solve updated the streams of the store
ResolveIntoStreams ==
  \E i \in 1..Len(inflight) :
    \E result \in Responses(inflight[i].body) :
      /\ onResult(result)
      /\ streams' = IF result.success
                      THEN Solved(streams, connections, OrElse(result.streams, EmptyMap))
                      ELSE streams
      /\ inflight' = DropAt(inflight, i)
      /\ lastOp' = [op |-> "resolve", result |-> result,
                    superseded |-> inflight[i].superseded]
      /\ UNCHANGED <<equipment, connections, warnings,
                     selectedEquipment, selectedStream, clock, timers, validating>>

Resolve ==
  \E i \in 1..Len(inflight) :
    \E result \in Responses(inflight[i].body) :
      /\ onResult(result)
      /\ inflight' = DropAt(inflight, i)
      /\ lastOp' = [op |-> "resolve", result |-> result,
                    superseded |-> inflight[i].superseded]
      /\ UNCHANGED <<equipment, streams, connections, warnings,
                     selectedEquipment, selectedStream, clock, timers, validating>>

\* onError, had it left isCalculating as it was
onErrorStillCalculating ==
  /\ errors' = <<Diagnostic("CALCULATION_ERROR", "critical")>>
  /\ UNCHANGED <<calculations, streamProperties, massBalanceValid,
                 systemRecovery, lastCalculation, isCalculating>>

\* recalculateFlowsheet: the catch block (the request failed)
onError ==
  /\ errors' = <<Diagnostic("CALCULATION_ERROR", "critical")>>
  /\ isCalculating' = FALSE
  /\ UNCHANGED <<calculations, streamProperties, massBalanceValid,
                 systemRecovery, lastCalculation>>

Reject ==
  \E i \in 1..Len(inflight) :
    /\ onError
    /\ inflight' = DropAt(inflight, i)
    /\ lastOp' = [op |-> "reject"]
    /\ UNCHANGED <<equipment, streams, connections, warnings,
                   selectedEquipment, selectedStream, clock, timers, validating>>

\* store.clearAll
clearAll ==
  /\ equipment' = EmptyMap
  /\ streams' = EmptyMap
  /\ connections' = <<>>
  /\ calculations' = EmptyMap
  /\ streamProperties' = EmptyMap
  /\ errors' = <<>>
  /\ warnings' = <<>>
  /\ selectedEquipment' = Null
  /\ selectedStream' = Null
  /\ isCalculating' = FALSE
  /\ lastCalculation' = NoDate
  /\ massBalanceValid' = FALSE
  /\ systemRecovery' = 0
  /\ lastOp' = [op |-> "clearAll"]
  /\ UNCHANGED <<clock, timers, validating, inflight>>

(* ----------------------- store.validateFlowsheet ----------------------- *)
\* what /validate/equipment may answer for one equipment: valid, not valid
\* with errors, not valid without an errors field, or the request fails
ValidationOutcomes == {"valid", "invalid", "invalidNoErrors", "failed"}

\* what the loop body pushes onto validationErrors for equipment id
validationErrorsOf(id, outcome) ==
  CASE outcome = "valid" -> <<>>
    [] outcome = "invalid" -> <<[code |-> "ValidationError", equipment_id |-> id,
                                 severity |-> "error"]>>
    [] outcome = "invalidNoErrors" -> <<>>
    [] outcome = "failed" -> <<[code |-> "VALIDATION_ERROR", equipment_id |-> id,
                                severity |-> "error"]>>

\* validationErrors after the loop over Object.entries(equipment); the units
\* of one type are visited in the order of their numbers
RECURSIVE validationErrors(_, _)
validationErrors(ids, outcomes) ==
  IF ids = {} THEN <<>>
  ELSE LET id == CHOOSE x \in ids : \A y \in ids : x[2] <= y[2]
       IN validationErrorsOf(id, outcomes[id]) \o validationErrors(ids \ {id}, outcomes)

\* validateFlowsheet up to its first `await processApi.validateEquipment(...)`;
\* with no equipment the loop is skipped and errors are set at once
validateFlowsheet ==
  /\ Len(validating) < MaxValidations
  /\ IF DOMAIN equipment = {}
       THEN /\ errors' = <<>>
            /\ UNCHANGED validating
       ELSE /\ validating' = Append(validating, equipment)
            /\ UNCHANGED errors
  /\ lastOp' = [op |-> IF DOMAIN equipment = {} THEN "validated" ELSE "validateFlowsheet"]
  /\ UNCHANGED <<equipment, streams, connections, calculations, streamProperties,
                 isCalculating, lastCalculation, massBalanceValid, systemRecovery,
                 warnings, selectedEquipment, selectedStream, clock, timers, inflight>>

\* validateFlowsheet after the loop: set({ errors: validationErrors })
onValidated ==
  \E i \in 1..Len(validating) :
    \E outcomes \in [DOMAIN validating[i] -> ValidationOutcomes] :
      /\ errors' = validationErrors(DOMAIN validating[i], outcomes)
      /\ validating' = DropAt(validating, i)
      /\ lastOp' = [op |-> "validated"]
      /\ UNCHANGED <<equipment, streams, connections, calculations, streamProperties,
                     isCalculating, lastCalculation, massBalanceValid, systemRecovery,
                     warnings, selectedEquipment, selectedStream, clock, timers,
                     inflight>>

(* ----------------------- store.importFlowsheet ------------------------- *)
importFlowsheet(data) ==
  /\ equipment' = data.equipment
  /\ streams' = data.streams
  /\ connections' = data.connections
  /\ calculations' = EmptyMap
  /\ streamProperties' = EmptyMap
  /\ errors' = <<>>
  /\ warnings' = <<>>
  /\ selectedEquipment' = Null
  /\ selectedStream' = Null
  /\ timers' = timers + 1
  /\ lastOp' = [op |-> "importFlowsheet"]
  /\ UNCHANGED <<isCalculating, lastCalculation, massBalanceValid,
                 systemRecovery, clock, validating, inflight>>

\* the callback of setTimeout(() => get().recalculateFlowsheet(), 100)
ImportTimer ==
  /\ timers > 0
  /\ CanSend
  /\ timers' = timers - 1
  /\ recalculateFlowsheet(equipment, connections)
  /\ lastOp' = [op |-> "importTimer"]
  /\ UNCHANGED <<equipment, streams, connections, calculations, streamProperties,
                 lastCalculation, massBalanceValid, systemRecovery,
                 selectedEquipment, selectedStream, clock, validating>>

(* --------------- the solver behind /calculate/flowsheet ---------------- *)
\* The backend is not part of the sources; this section follows the design
\* document: stream graph, validation engine, equipment models, mass-balance
\* solver, result aggregator.
MAX_ITERATIONS == 100

\* tolerance 1e-3, as the divisor of a relative change
TOLERANCE_DIVISOR == 1000

\* under-relaxation factor 0.5, in percent
RELAXATION == 50

\* maxIterations of a solve: forced to 1, or the default
IterationBudgets == {1, MAX_ITERATIONS}

Abs(x) == IF x < 0 THEN -x ELSE x

Max(x, y) == IF x < y THEN y ELSE x

Range(s) == {s[i] : i \in 1..Len(s)}

RECURSIVE SumOver(_, _)
SumOver(S, f) ==
  IF S = {} THEN 0
  ELSE LET x == CHOOSE y \in S : TRUE IN f[x] + SumOver(S \ {x}, f)

(* Stream graph *)
Conns(body) == Range(body.connections)

InletConns(body, e) == {c \in Conns(body) : c.targetEquipmentId = e}

OutletConns(body, e) == {c \in Conns(body) : c.sourceEquipmentId = e}

Consumers(body, e) == {c.targetEquipmentId : c \in OutletConns(body, e)}

RECURSIVE Closure(_, _, _)
Closure(body, todo, seen) ==
  IF todo = {} THEN seen
  ELSE LET e == CHOOSE x \in todo : TRUE
           new == Consumers(body, e) \ seen
       IN Closure(body, (todo \ {e}) \cup new, seen \cup new)

\* the equipment reached from e along one connection or more
Downstream(body, e) == Closure(body, {e}, {})

\* cycle detection: the connection lies on a recycle loop
OnCycle(body, c) == c.sourceEquipmentId \in Downstream(body, c.targetEquipmentId)

IsCyclic(body) == \E c \in Conns(body) : OnCycle(body, c)

\* ascending id
TypeRank == [feed_tank |-> 1, pump |-> 2, strainer |-> 3, tank |-> 4, ultrafiltration |-> 5]

IdLess(a, b) ==
  \/ TypeRank[a[1]] < TypeRank[b[1]]
  \/ TypeRank[a[1]] = TypeRank[b[1]] /\ a[2] < b[2]

\* topological order; the members of a strongly connected component wait only
\* for the producers outside it and come in ascending id
RECURSIVE EvaluationOrder(_, _)
EvaluationOrder(body, done) ==
  LET rest == DOMAIN body.equipment \ Range(done)
      ready == {e \in rest :
                  \A c \in InletConns(body, e) :
                    \/ c.sourceEquipmentId \in Range(done)
                    \/ c.sourceEquipmentId \in Downstream(body, e)}
  IN IF ready = {} THEN done
     ELSE LET e == CHOOSE x \in ready : \A y \in ready \ {x} : IdLess(x, y)
          IN EvaluationOrder(body, Append(done, e))

\* inlets that need a producer; the feed tank's inlet is an external feed
\* boundary, backwash and CIP inlets are service connections
RequiredInlets ==
  [ultrafiltration |-> {"feed_inlet"}, tank |-> {"inlet"}, pump |-> {"suction"},
   strainer |-> {"inlet"}, feed_tank |-> {}]

PortDeclared(body, e, port, type) ==
  /\ e \in DOMAIN body.equipment
  /\ port \in DOMAIN EQUIPMENT_PORTS[body.equipment[e].equipment_type]
  /\ EQUIPMENT_PORTS[body.equipment[e].equipment_type][port].type = type

ConnectionValid(body, c) ==
  /\ PortDeclared(body, c.sourceEquipmentId, c.sourcePort, "outlet")
  /\ PortDeclared(body, c.targetEquipmentId, c.targetPort, "inlet")
  /\ EQUIPMENT_PORTS[body.equipment[c.sourceEquipmentId].equipment_type][c.sourcePort].streamTypes
       \cap EQUIPMENT_PORTS[body.equipment[c.targetEquipmentId].equipment_type][c.targetPort].streamTypes
       # {}
  /\ \A d \in Conns(body) \ {c} :
       /\ <<d.sourceEquipmentId, d.sourcePort>> # <<c.sourceEquipmentId, c.sourcePort>>
       /\ <<d.targetEquipmentId, d.targetPort>> # <<c.targetEquipmentId, c.targetPort>>

TopologyValid(body) ==
  /\ \A c \in Conns(body) : ConnectionValid(body, c)
  /\ \A e \in DOMAIN body.equipment :
       \A port \in RequiredInlets[body.equipment[e].equipment_type] :
         \E c \in InletConns(body, e) : c.targetPort = port

(* Validation engine, before evaluation *)
ConfigValid(body) ==
  \A e \in DOMAIN body.equipment :
    LET eq == body.equipment[e]
        domain == PROPERTY_INPUTS[eq.equipment_type]
    IN \A key \in DOMAIN domain \cap DOMAIN eq.config :
         domain[key][1] <= eq.config[key] /\ eq.config[key] <= domain[key][2]

StructuralErrors(body) ==
  (IF ConfigValid(body) THEN <<>> ELSE <<Diagnostic("ValidationError", "error")>>)
    \o (IF TopologyValid(body) THEN <<>> ELSE <<Diagnostic("TopologyError", "error")>>)

(* Equipment models *)
\* osmotic pressure from the feed concentration, hundredths of a bar
OsmoticPressure(config) == config.feed_concentration \div 10

\* viscosity falls with temperature; 10 at 25 degrees
Viscosity(config) == 15 - config.temperature \div 500

\* Rm of a clean membrane plus Rf, which grows with the operating hours
Resistance(config) == 15 + config.operating_hours \div 1000

\* J = (TMP - osmotic pressure) / (viscosity * (Rm + Rf)), in L/m2/h
Flux(config) ==
  ((config.transmembrane_pressure - OsmoticPressure(config)) * 100)
    \div (Viscosity(config) * Resistance(config))

\* permeate flow = J * membrane area, in hundredths of m3/h
PermeateFlow(config) == (Flux(config) * config.membrane_area) \div 1000

\* evaluate(inletStreams, config): the flow at every outlet port
evaluate(type, config, inflow) ==
  CASE type = "ultrafiltration" ->
         [permeate_outlet |-> PermeateFlow(config),
          concentrate_outlet |-> inflow - PermeateFlow(config)]
    [] type = "feed_tank" -> [outlet |-> inflow, overflow |-> 0, drain |-> 0]
    [] type = "tank" -> [outlet |-> inflow]
    [] type = "pump" -> [discharge |-> inflow]
    [] type = "strainer" -> [outlet |-> inflow, drain |-> 0]

\* external feed where no upstream producer exists: the feed tank's inflow
BoundaryFeed(body, e) ==
  IF body.equipment[e].equipment_type = "feed_tank"
    THEN OrDefault(body.equipment[e].config, "inflow_rate", 0)
    ELSE 0

InletFlow(body, e, flows) ==
  BoundaryFeed(body, e) + SumOver({c.id : c \in InletConns(body, e)}, flows)

(* Mass-balance solver *)
\* under-relaxation: the new and the previous flow of a stream, blended
Relax(new, previous) == (RELAXATION * new + (100 - RELAXATION) * previous) \div 100

\* the streams e produces, given the flows `out` at its outlet ports
Produce(body, e, out, flows, previous, recycle) ==
  [s \in DOMAIN flows |->
     LET c == ConnAt(body.connections, s)
     IN IF c.sourceEquipmentId # e THEN flows[s]
        ELSE IF s \in recycle THEN Relax(out[c.sourcePort], previous[s])
        ELSE out[c.sourcePort]]

\* one pass: every equipment in evaluation order, each producing new stream
\* states (values are bound through singleton sets, to be computed once)
RECURSIVE EvaluateAll(_, _, _, _, _)
EvaluateAll(body, order, state, previous, recycle) ==
  IF order = <<>> THEN state
  ELSE LET e == Head(order)
           eq == body.equipment[e]
       IN CHOOSE result \in
            {EvaluateAll(body, Tail(order),
                         [flows |-> Produce(body, e, out, state.flows, previous, recycle),
                          outlets |-> Put(state.outlets, e, out)],
                         previous, recycle)
               : out \in {evaluate(eq.equipment_type, eq.config,
                                   InletFlow(body, e, state.flows))}} : TRUE

\* the relative change of a stream's flow rate is below tolerance
Stable(new, previous) ==
  \/ new = previous
  \/ Abs(new - previous) * TOLERANCE_DIVISOR < Max(Abs(new), Abs(previous))

\* the flow leaving e: the stream on a connected outlet port, the evaluated
\* flow on an open one
OutletFlow(body, e, flows, outlets) ==
  LET ports == DOMAIN outlets[e]
      at == [port \in ports |->
               IF \E c \in OutletConns(body, e) : c.sourcePort = port
                 THEN flows[(CHOOSE c \in OutletConns(body, e) : c.sourcePort = port).id]
                 ELSE outlets[e][port]]
  IN SumOver(ports, at)

\* |sum of inlet flows - sum of outlet flows| <= tolerance * sum of inlet flows
Balanced(body, e, flows, outlets) ==
  Abs(InletFlow(body, e, flows) - OutletFlow(body, e, flows, outlets)) * TOLERANCE_DIVISOR
    <= InletFlow(body, e, flows)

\* the largest mass-balance discrepancy is within tolerance
MassBalanceValid(body, flows, outlets) ==
  \A e \in DOMAIN body.equipment : Balanced(body, e, flows, outlets)

\* residual < tolerance: the maximum relative change of a flow across all
\* streams between this pass and the previous one, and the largest
\* mass-balance discrepancy
ResidualBelowTolerance(body, pass, previous) ==
  /\ \A s \in DOMAIN pass.flows : Stable(pass.flows[s], previous[s])
  /\ MassBalanceValid(body, pass.flows, pass.outlets)

\* BudgetExhausted, had it let one pass too many through
BudgetExceeded(iterations, maxIterations) == iterations > maxIterations

\* the budget is used up
BudgetExhausted(iterations, maxIterations) == iterations >= maxIterations

\* one solve at a time: the solver is single-threaded
SolverIdle == \A j \in 1..Len(inflight) : inflight[j].solve.pc \in {"received", "done"}

StoreVars == <<equipment, streams, connections, calculations, streamProperties,
               isCalculating, lastCalculation, massBalanceValid, systemRecovery,
               errors, warnings, selectedEquipment, selectedStream, clock, timers,
               validating>>

\* validation and topology checks; a structural error aborts the solve,
\* otherwise the stream graph gives the evaluation order and the recycle loops
SolverValidate ==
  \E i \in 1..Len(inflight) :
    LET body == inflight[i].body
        diagnostics == StructuralErrors(body)
    IN /\ inflight[i].solve.pc = "received"
       /\ SolverIdle
       /\ IF diagnostics # <<>>
            THEN inflight' = [inflight EXCEPT ![i].solve =
                   [@ EXCEPT !.pc = "done", !.rejected = TRUE,
                             !.diagnostics = diagnostics]]
            ELSE \E budget \in IterationBudgets :
                   inflight' = [inflight EXCEPT ![i].solve =
                     [@ EXCEPT !.pc = "iterating", !.maxIterations = budget,
                               !.order = EvaluationOrder(body, <<>>),
                               !.recycle = {c.id : c \in {d \in Conns(body) : OnCycle(body, d)}},
                               !.flows = [s \in DOMAIN body.streams |-> 0]]]
       /\ lastOp' = [op |-> "validate"]
       /\ UNCHANGED StoreVars

\* the solve after a pass that produced `pass`
afterPass(solve, body, pass) ==
  LET iterations == solve.iterations + 1
      converged == \/ solve.recycle = {}
                   \/ ResidualBelowTolerance(body, pass, solve.flows)
      stop == converged \/ BudgetExhausted(iterations, solve.maxIterations)
  IN [solve EXCEPT !.flows = pass.flows,
                   !.outlets = pass.outlets,
                   !.iterations = iterations,
                   !.converged = converged,
                   !.pc = IF stop THEN "done" ELSE "iterating",
                   !.diagnostics = IF stop /\ ~converged
                                     THEN <<Diagnostic("ConvergenceError", "warning")>>
                                     ELSE <<>>]

\* one pass of the solver over the request it is iterating on
iterate(solve, body) ==
  CHOOSE next \in
    {afterPass(solve, body, pass)
       : pass \in {EvaluateAll(body, solve.order,
                               [flows |-> solve.flows, outlets |-> solve.outlets],
                               solve.flows, solve.recycle)}} : TRUE

SolverIterate ==
  \E i \in 1..Len(inflight) :
    /\ inflight[i].solve.pc = "iterating"
    /\ \E next \in {iterate(inflight[i].solve, inflight[i].body)} :
         inflight' = [inflight EXCEPT ![i].solve = next]
    /\ lastOp' = [op |-> "iterate"]
    /\ UNCHANGED StoreVars

(* Result aggregator *)
Recovery(permeate, feed) == IF feed = 0 THEN 0 ELSE (permeate * 100) \div feed

EquipmentResult(body, e, solve) ==
  LET eq == body.equipment[e]
      inflow == InletFlow(body, e, solve.flows)
      base == [inlet_flow |-> inflow, outlet_flows |-> solve.outlets[e]]
  IN IF eq.equipment_type = "ultrafiltration"
       THEN [inlet_flow |-> inflow, outlet_flows |-> solve.outlets[e],
             permeate_flow |-> solve.outlets[e].permeate_outlet,
             concentrate_flow |-> solve.outlets[e].concentrate_outlet,
             recovery |-> Recovery(solve.outlets[e].permeate_outlet, inflow),
             flux |-> Flux(eq.config)]
       ELSE base

SystemRecovery(body, solve) ==
  LET units == {e \in DOMAIN body.equipment :
                  body.equipment[e].equipment_type = "ultrafiltration"}
      permeate == SumOver(units, [e \in units |-> solve.outlets[e].permeate_outlet])
      feed == SumOver(DOMAIN body.equipment,
                      [e \in DOMAIN body.equipment |-> BoundaryFeed(body, e)])
  IN Recovery(permeate, feed)

\* the response to a request whose solve is done
SolveResponse(request) ==
  LET body == request.body
      solve == request.solve
  IN IF solve.rejected
       THEN [success |-> FALSE, converged |-> None(FALSE), streams |-> None(EmptyMap),
             equipment_results |-> None(EmptyMap), system_recovery |-> None(0),
             errors |-> Some(solve.diagnostics)]
       ELSE [success |-> TRUE, converged |-> Some(solve.converged),
             streams |-> Some([s \in DOMAIN solve.flows |-> [flow_rate |-> solve.flows[s]]]),
             equipment_results |->
               Some([e \in DOMAIN body.equipment |-> EquipmentResult(body, e, solve)]),
             system_recovery |-> Some(SystemRecovery(body, solve)),
             errors |-> Some(solve.diagnostics)]

\* the response reaches recalculateFlowsheet
Deliver ==
  \E i \in 1..Len(inflight) :
    /\ inflight[i].solve.pc = "done"
    /\ onResult(SolveResponse(inflight[i]))
    /\ inflight' = DropAt(inflight, i)
    /\ lastOp' = [op |-> "deliver", result |-> SolveResponse(inflight[i]),
                  body |-> inflight[i].body, iterations |-> inflight[i].solve.iterations,
                  maxIterations |-> inflight[i].solve.maxIterations,
                  superseded |-> inflight[i].superseded]
    /\ UNCHANGED <<equipment, streams, connections, warnings,
                   selectedEquipment, selectedStream, clock, timers, validating>>

(* --------------------------- specifications ---------------------------- *)
\* Editing the topology: palette clicks, drags between handles, removals.
CanvasDrags ==
  {[from |-> <<"strainer", 1>>, fromHandle |-> "outlet",
    to |-> <<"ultrafiltration", 1>>, toHandle |-> "feed_inlet"],
   [from |-> <<"strainer", 1>>, fromHandle |-> "outlet",
    to |-> <<"ultrafiltration", 1>>, toHandle |-> "backwash_inlet"],
   [from |-> <<"strainer", 1>>, fromHandle |-> "drain",
    to |-> <<"ultrafiltration", 1>>, toHandle |-> "backwash_inlet"],
   [from |-> <<"ultrafiltration", 1>>, fromHandle |-> "feed_inlet",
    to |-> <<"strainer", 1>>, toHandle |-> "inlet"]}

AddEquipment == PaletteClick(PaletteTypes, {100}, MaxEquipment)

AddConnection == \E g \in CanvasDrags : Drag(g)

CanvasNext ==
  \/ AddEquipment
  \/ RemoveEquipment
  \/ AddConnection
  \/ RemoveConnection
  \/ SelectStream
  \/ Reject
  \/ Tick

SpecCanvas == Init /\ [][CanvasNext]_vars

\* Configuring and solving a flowsheet of ultrafiltration units.
SolveDrags ==
  {[from |-> <<"ultrafiltration", 1>>, fromHandle |-> "concentrate_outlet",
    to |-> <<"ultrafiltration", 1>>, toHandle |-> "feed_inlet"]}

ConfigEdits ==
  {<<"transmembrane_pressure", Typed(500)>>, <<"transmembrane_pressure", NaN>>}

AddUltrafiltration == PaletteClick({"ultrafiltration"}, {100}, MaxUnits)

AddRecycle == \E g \in SolveDrags : Drag(g)

UpdateEquipment == ConfigChange(ConfigEdits)

Next ==
  \/ AddUltrafiltration
  \/ AddRecycle
  \/ SelectEquipment
  \/ UpdateEquipment
  \/ Calculate
  \/ Resolve
  \/ Reject
  \/ clearAll

Spec == Init /\ [][Next]_vars

\* Building solve requests while positions, selection, results and time change.
RequestNext ==
  \/ AddUltrafiltration
  \/ AddRecycle
  \/ SelectEquipment
  \/ NodeDragStop
  \/ Calculate
  \/ Resolve
  \/ Reject
  \/ Tick

SpecRequest == Init /\ [][RequestNext]_vars

\* Importing flowsheet files and solving them.
FeedTank1 ==
  [id |-> <<"feed_tank", 1>>, type |-> "feed_tank", position |-> 100,
   config |-> [volume |-> 10000, height |-> 500, level |-> 7500, inflow_rate |-> 10000]]

Membrane1 ==
  [id |-> <<"ultrafiltration", 1>>, type |-> "ultrafiltration", position |-> 100,
   config |-> EQUIPMENT_TEMPLATES["ultrafiltration"]]

Pump1 ==
  [id |-> <<"pump", 1>>, type |-> "pump", position |-> 100,
   config |-> EQUIPMENT_TEMPLATES["pump"]]

\* a connection as addConnection stores it, made at time t
StoredConnection(source, sourcePort, target, targetPort, t) ==
  [id |-> <<source.id, sourcePort, target.id, targetPort>>,
   sourceEquipmentId |-> source.id, sourcePort |-> sourcePort,
   targetEquipmentId |-> target.id, targetPort |-> targetPort, streamId |-> t]

\* the stream addConnection stores with a connection
StoredStream(c) ==
  [id |-> c.streamId, sourceEquipmentId |-> c.sourceEquipmentId,
   sourcePort |-> c.sourcePort, targetEquipmentId |-> c.targetEquipmentId,
   targetPort |-> c.targetPort,
   properties |-> [flowRate |-> 0, pressure |-> 100, temperature |-> 2500,
                   concentration |-> 0]]

\* store.exportFlowsheet, of a store that holds eqs and conns
exportFlowsheet(eqs, conns) ==
  [equipment |-> [id \in {e.id : e \in eqs} |-> CHOOSE e \in eqs : e.id = id],
   streams |-> [t \in {conns[i].streamId : i \in 1..Len(conns)} |->
                  StoredStream(CHOOSE c \in Range(conns) : c.streamId = t)],
   connections |-> conns,
   version |-> "3.0.0"]

FeedLine == StoredConnection(FeedTank1, "outlet", Membrane1, "feed_inlet", 1)

ReturnLine == StoredConnection(Pump1, "discharge", FeedTank1, "inlet", 3)

FlowsheetFiles ==
  {\* once through: feed tank to membrane
   exportFlowsheet({FeedTank1, Membrane1}, <<FeedLine>>),
   \* permeate recycled to the feed tank through a pump
   exportFlowsheet({FeedTank1, Membrane1, Pump1},
     <<FeedLine, StoredConnection(Membrane1, "permeate_outlet", Pump1, "suction", 2),
       ReturnLine>>),
   \* concentrate recycled to the feed tank through a pump
   exportFlowsheet({FeedTank1, Membrane1, Pump1},
     <<FeedLine, StoredConnection(Membrane1, "concentrate_outlet", Pump1, "suction", 2),
       ReturnLine>>),
   \* a membrane whose feed inlet has no producer
   exportFlowsheet({Membrane1}, <<>>),
   \* a transmembrane pressure of 5 bar
   exportFlowsheet({FeedTank1,
                    [Membrane1 EXCEPT !.config.transmembrane_pressure = 500]},
                   <<FeedLine>>)}

ImportFlowsheet ==
  \E data \in FlowsheetFiles :
    /\ timers < MaxTimers
    /\ importFlowsheet(data)

SolverNext ==
  \/ ImportFlowsheet
  \/ ImportTimer
  \/ Calculate
  \/ SolverValidate
  \/ SolverIterate
  \/ Deliver

SolverSpec == Init /\ [][SolverNext]_vars

\* Solving the flowsheet a file brought into an empty store; the backend runs
\* a solve it has started to its end.
FirstImport == equipment = EmptyMap /\ ImportFlowsheet

SolverFairNext ==
  \/ FirstImport
  \/ ImportTimer
  \/ Calculate
  \/ SolverValidate
  \/ SolverIterate
  \/ Deliver

SolverFairSpec == Init /\ [][SolverFairNext]_vars /\ WF_vars(SolverIterate)

\* Editing the configuration of an imported flowsheet in the property panel.
PanelEdits ==
  {<<"inflow_rate", Typed(-500)>>, <<"ph", Typed(1500)>>, <<"temperature", NaN>>,
   <<"transmembrane_pressure", Typed(100)>>}

PanelEdit == ConfigChange(PanelEdits)

PanelNext ==
  \/ FirstImport
  \/ ImportTimer
  \/ SelectEquipment
  \/ PanelEdit
  \/ Reject

PanelSpec == Init /\ [][PanelNext]_vars

\* Editing a configuration again while earlier recalculations are still awaited.
OverlappingUpdate ==
  \E e \in ConfigEdits :
    /\ Len(inflight) < MaxOverlap
    /\ handleConfigChange(e[1], fieldValue(e[1], parseFloatOrZero(e[2])))

OverlapNext ==
  \/ AddUltrafiltration
  \/ SelectEquipment
  \/ OverlappingUpdate
  \/ Resolve
  \/ Reject

OverlapSpec == Init /\ [][OverlapNext]_vars

\* Building and taking apart a flowsheet of a strainer and a membrane unit,
\* each drag made once the request of the one before has settled.
TopologyDrag ==
  /\ inflight = <<>>
  /\ \E g \in CanvasDrags \cup SolveDrags : Drag(g)

TopologyNext ==
  \/ AddEquipment
  \/ RemoveEquipment
  \/ TopologyDrag
  \/ RemoveConnection
  \/ Reject

TopologySpec == Init /\ [][TopologyNext]_vars

\* Recalculations, overlapping or not, each of which is answered or fails in
\* the end.
ActivityEdits == {<<"transmembrane_pressure", Typed(500)>>}

\* PropertyInput.onChange while earlier recalculations are unanswered
ActivityUpdate ==
  \E e \in ActivityEdits :
    /\ Len(inflight) < MaxOverlap
    /\ handleConfigChange(e[1], fieldValue(e[1], parseFloatOrZero(e[2])))

ActivityNext ==
  \/ AddUltrafiltration
  \/ SelectEquipment
  \/ ActivityUpdate
  \/ AddRecycle
  \/ FirstImport
  \/ ImportTimer
  \/ Calculate
  \/ Resolve
  \/ Reject

ActivitySpec == Init /\ [][ActivityNext]_vars /\ WF_vars(Resolve \/ Reject)

\* Validating a flowsheet that has been solved.
ValidationNext ==
  \/ AddUltrafiltration
  \/ Calculate
  \/ Resolve
  \/ Reject
  \/ validateFlowsheet
  \/ onValidated

ValidationSpec == Init /\ [][ValidationNext]_vars

(* ------------------------------ claims --------------------------------- *)
PortOf(id, port) == EQUIPMENT_PORTS[equipment[id].type][port]

Declared(id, port) ==
  /\ id \in DOMAIN equipment
  /\ port \in DOMAIN EQUIPMENT_PORTS[equipment[id].type]

\* C1: every (equipment, port) pair is the source of at most one connection
\* and the target of at most one connection.
C1_OnePortOneConnection ==
  \A i, j \in 1..Len(connections) :
    i # j =>
      /\ <<connections[i].sourceEquipmentId, connections[i].sourcePort>>
           # <<connections[j].sourceEquipmentId, connections[j].sourcePort>>
      /\ <<connections[i].targetEquipmentId, connections[i].targetPort>>
           # <<connections[j].targetEquipmentId, connections[j].targetPort>>

\* C2: the stream kinds of the source port and of the target port of every
\* connection in the store intersect.
C2_StreamKindsIntersect ==
  \A i \in 1..Len(connections) :
    LET c == connections[i]
    IN (Declared(c.sourceEquipmentId, c.sourcePort)
          /\ Declared(c.targetEquipmentId, c.targetPort))
         => PortOf(c.sourceEquipmentId, c.sourcePort).streamTypes
              \cap PortOf(c.targetEquipmentId, c.targetPort).streamTypes # {}

\* C3: the source port of every connection is a declared outlet and its
\* target port a declared inlet.
C3_OutletToInlet ==
  \A i \in 1..Len(connections) :
    LET c == connections[i]
    IN /\ Declared(c.sourceEquipmentId, c.sourcePort)
       /\ Declared(c.targetEquipmentId, c.targetPort)
       /\ PortOf(c.sourceEquipmentId, c.sourcePort).type = "outlet"
       /\ PortOf(c.targetEquipmentId, c.targetPort).type = "inlet"

\* C4: the id a palette click generates is not the id of an equipment in the
\* store, so the click adds exactly one equipment.
C4_FreshEquipmentId ==
  lastOp.op = "addEquipment" =>
    /\ lastOp.id \notin lastOp.before
    /\ Cardinality(DOMAIN equipment) = Cardinality(lastOp.before) + 1

\* C7: a request built from the same equipment (id, type, config) and the
\* same connections is the same request, whatever else the store held when it
\* was built: positions, selection, streams, earlier results, the time.
C7_SameSnapshotSameRequest ==
  /\ \A i \in 1..Len(inflight) :
       inflight[i].snapshot = Snapshot(equipment, connections)
         => inflight[i].body = flowsheetData(equipment, connections)
  /\ \A i, j \in 1..Len(inflight) :
       inflight[i].snapshot = inflight[j].snapshot
         => inflight[i].body = inflight[j].body

\* a request is in flight whose snapshot is the present one, and an equipment
\* has just been dragged to another position
C7_Witness ==
  /\ lastOp.op = "drag"
  /\ connections # <<>>
  /\ \E i \in 1..Len(inflight) :
       inflight[i].snapshot = Snapshot(equipment, connections)

\* C8: after a rejected solve (success = false) the store holds the returned
\* diagnostics and no stream properties and no equipment results.
C8_RejectedSolveLeavesNoResults ==
  (lastOp.op = "resolve" /\ ~lastOp.result.success) =>
    /\ errors = OrElse(lastOp.result.errors, <<>>)
    /\ streamProperties = EmptyMap
    /\ calculations = EmptyMap

\* C9: after a successful response with converged = false the store holds the
\* returned stream properties, equipment results, system recovery and
\* diagnostics, and massBalanceValid is false.
C9_NonConvergedResultDelivered ==
  (lastOp.op = "resolve" /\ lastOp.result.success
     /\ ~OrElse(lastOp.result.converged, FALSE)) =>
    /\ streamProperties = OrElse(lastOp.result.streams, EmptyMap)
    /\ calculations = OrElse(lastOp.result.equipment_results, EmptyMap)
    /\ systemRecovery = OrElse(lastOp.result.system_recovery, 0)
    /\ errors = OrElse(lastOp.result.errors, <<>>)
    /\ massBalanceValid = FALSE

\* a response with converged = false and results for a stream has just been handled
C9_Witness ==
  /\ lastOp.op = "resolve"
  /\ lastOp.result.success
  /\ lastOp.result.converged = Some(FALSE)
  /\ lastOp.result.streams.present
  /\ DOMAIN lastOp.result.streams.value # {}
  /\ streamProperties = lastOp.result.streams.value

InDomain(type, config) ==
  \A key \in DOMAIN PROPERTY_INPUTS[type] \cap DOMAIN config :
    /\ PROPERTY_INPUTS[type][key][1] <= config[key]
    /\ config[key] <= PROPERTY_INPUTS[type][key][2]

\* C10: no solve request carries an equipment whose configuration has a value
\* outside the domain its field declares.
C10_NoRequestOutOfDomain ==
  \A i \in 1..Len(inflight) :
    \A id \in DOMAIN inflight[i].body.equipment :
      LET e == inflight[i].body.equipment[id]
      IN InDomain(e.equipment_type, e.config)

SolveInvariant(solve) ==
  /\ solve.iterations <= solve.maxIterations
  /\ solve.pc = "iterating" => ~solve.converged
  /\ (solve.pc = "done" /\ ~solve.rejected /\ ~solve.converged) =>
       /\ solve.iterations = solve.maxIterations
       /\ \E k \in 1..Len(solve.diagnostics) :
            solve.diagnostics[k].code = "ConvergenceError"
  /\ (solve.pc = "done" /\ solve.converged) => solve.diagnostics = <<>>

Iterating == \E i \in 1..Len(inflight) : inflight[i].solve.pc = "iterating"

\* C6: a solve that iterates comes to an end; it never makes more than
\* maxIterations passes, and one that ends without converging carries
\* converged = false and a ConvergenceError diagnostic.
C6_IterationTerminates ==
  /\ [](\A i \in 1..Len(inflight) : SolveInvariant(inflight[i].solve))
  /\ Iterating ~> ~Iterating

\* a solve has used its whole budget of MAX_ITERATIONS passes without converging
C6_Witness ==
  \E i \in 1..Len(inflight) :
    /\ inflight[i].solve.pc = "done"
    /\ ~inflight[i].solve.converged
    /\ inflight[i].solve.iterations = MAX_ITERATIONS
    /\ inflight[i].solve.diagnostics # <<>>

\* C11: validateFlowsheet leaves calculations, streamProperties,
\* systemRecovery and massBalanceValid as they are, and every diagnostic the
\* last solve delivered is still among the errors once it has finished
C11_ValidationOnlyAnnotates ==
  [][lastOp'.op = "validated" =>
       /\ UNCHANGED <<calculations, streamProperties, systemRecovery, massBalanceValid>>
       /\ \A i \in 1..Len(errors) : \E j \in 1..Len(errors') : errors'[j] = errors[i]]_vars

\* C12: right after updateEquipment(id, {config}) the newest solve request
\* carries the updated configuration for id, and the type and configuration
\* of every equipment and every connection that is in the store
C12_UpdateTriggersFullRecalculation ==
  lastOp.op = "updateEquipment" =>
    /\ Len(inflight) > 0
    /\ LET body == inflight[Len(inflight)].body
       IN /\ lastOp.id \in DOMAIN body.equipment
          /\ body.equipment[lastOp.id].config = lastOp.config
          /\ DOMAIN body.equipment = DOMAIN equipment
          /\ \A id \in DOMAIN equipment :
               /\ body.equipment[id].equipment_type = equipment[id].type
               /\ body.equipment[id].config = equipment[id].config
          /\ body.connections = connections
          /\ DOMAIN body.streams = ConnKeys(connections)

\* an edit of one of three connected units reached the request
C12_Witness ==
  /\ lastOp.op = "updateEquipment"
  /\ lastOp.config # EQUIPMENT_TEMPLATES["ultrafiltration"]
  /\ Cardinality(DOMAIN equipment) = 3
  /\ Len(connections) = 3
  /\ Len(inflight) > 0
  /\ inflight[Len(inflight)].body.equipment[lastOp.id].config = lastOp.config

\* C13: right after a response with success, the stored equipment results
\* and stream properties are exactly the ones that response carried (empty
\* where it carried none)
C13_ResultsReplacedOnEverySolve ==
  (lastOp.op = "resolve" /\ lastOp.result.success) =>
    /\ calculations = OrElse(lastOp.result.equipment_results, EmptyMap)
    /\ streamProperties = OrElse(lastOp.result.streams, EmptyMap)

\* a successful solve of a flowsheet with a stream has just been stored
C13_Witness ==
  /\ lastOp.op = "resolve"
  /\ lastOp.result.success
  /\ lastOp.result.streams.present
  /\ DOMAIN streamProperties # {}
  /\ DOMAIN calculations # {}

\* the water-quality fields of a stream entry
QualityKeys ==
  {"turbidity", "tss", "tds", "fog", "bod", "cod", "ph", "alkalinity", "hardness",
   "chloride", "sulfate", "nitrate", "phosphate", "iron", "manganese"}

\* the values field `key` of the stream out of `source` may start with: the
\* default, or the feed tank's own value when the source is a feed tank
SeedValues(request, source, key, config_key) ==
  LET eqs == request.snapshot.equipment
      d == defaultStreamData(<<>>, [sourceEquipmentId |-> <<>>, targetEquipmentId |-> <<>>,
                                    sourcePort |-> "", targetPort |-> ""])
  IN {d[key]} \cup
     IF source \in DOMAIN eqs /\ eqs[source].type = "feed_tank"
          /\ config_key \in DOMAIN eqs[source].config
       THEN {eqs[source].config[config_key]}
       ELSE {}

C16_SolveInputImmutable ==
  [][lastOp'.op \in {"calculate", "importTimer", "resolve", "reject", "deliver"} =>
       UNCHANGED <<equipment, connections, streams, selectedEquipment,
                   selectedStream>>]_vars

\* a successful solve of a flowsheet that has a stream was stored
C16_Witness ==
  /\ lastOp.op = "resolve"
  /\ lastOp.result.success
  /\ DOMAIN streams # {}
  /\ DOMAIN streamProperties # {}
  /\ Len(connections) > 0

\* the ids in a list of stream ids, each listed once
Listed(ids, expected) ==
  /\ {ids[k] : k \in 1..Len(ids)} = expected
  /\ Len(ids) = Cardinality(expected)

\* C17: every solve request has one entry, with type and config, for every
\* equipment of the store it was built from and one stream entry for every
\* connection; the inlet_streams of an equipment are the ids of the
\* connections whose target it is, its outlet_streams those whose source it is
C17_RequestIsCompleteSnapshot ==
  \A i \in 1..Len(inflight) :
    LET body == inflight[i].body
        eqs == inflight[i].snapshot.equipment
        conns == inflight[i].snapshot.connections
        at == 1..Len(conns)
    IN /\ DOMAIN body.equipment = DOMAIN eqs
       /\ DOMAIN body.streams = {conns[j].id : j \in at}
       /\ body.connections = conns
       /\ \A id \in DOMAIN eqs :
            /\ body.equipment[id].equipment_id = id
            /\ body.equipment[id].equipment_type = eqs[id].type
            /\ body.equipment[id].config = eqs[id].config
            /\ Listed(body.equipment[id].inlet_streams,
                      {conns[j].id : j \in {k \in at : conns[k].targetEquipmentId = id}})
            /\ Listed(body.equipment[id].outlet_streams,
                      {conns[j].id : j \in {k \in at : conns[k].sourceEquipmentId = id}})

\* a request for three units in a loop is in flight, built from the store as it is
C17_Witness ==
  \E i \in 1..Len(inflight) :
    /\ Cardinality(DOMAIN inflight[i].body.equipment) = 3
    /\ Cardinality(DOMAIN inflight[i].body.streams) = 3
    /\ \A id \in DOMAIN inflight[i].body.equipment :
         /\ Len(inflight[i].body.equipment[id].inlet_streams) = 1
         /\ Len(inflight[i].body.equipment[id].outlet_streams) = 1
    /\ DOMAIN inflight[i].body.equipment = DOMAIN equipment
    /\ inflight[i].body.connections = connections

\* C18: when no request is in flight any more and the results in the store
\* were written by the response that arrived last, that response belongs to
\* a solve of the snapshot the most recently started solve was built from
C18_LastStartedSolveWins ==
  (inflight = <<>> /\ lastOp.op = "resolve" /\ lastOp.result.success) =>
    ~lastOp.superseded

\* C19: isCalculating is true whenever a solve request is in flight
C19_CalculatingWhileInFlight == Len(inflight) > 0 => isCalculating

\* C20: a response, or a failed request, that arrives right after clearAll
\* leaves calculations, streamProperties, errors, massBalanceValid,
\* systemRecovery and lastCalculation as clearAll set them
C20_ClearedStoreStaysCleared ==
  [][(lastOp.op = "clearAll" /\ lastOp'.op \in {"resolve", "reject"}) =>
       UNCHANGED <<calculations, streamProperties, errors, massBalanceValid,
                   systemRecovery, lastCalculation>>]_vars

\* C21: the response that sets massBalanceValid finds the store equal to the
\* snapshot its request was built from, and as long as the flag stays true
\* no other step changes what a solve is a function of, so that the flag
\* always speaks of the equipment and connections in the store
C21_ValidFlagMatchesFlowsheet ==
  [][massBalanceValid' =>
       IF lastOp'.op \in {"resolve", "deliver"}
         THEN \E i \in 1..Len(inflight) :
                /\ inflight' = DropAt(inflight, i)
                /\ inflight[i].snapshot = Snapshot(equipment', connections')
         ELSE Snapshot(equipment', connections') = Snapshot(equipment, connections)]_vars

\* the connections that have id at one of their ends
Involving(conns, id) ==
  {conns[j].id : j \in {k \in 1..Len(conns) :
                          conns[k].sourceEquipmentId = id \/ conns[k].targetEquipmentId = id}}

\* C22: the source and the target of every connection in the store are in
\* equipment, and removeEquipment(id) removes id and exactly the connections
\* with id at one end: every other equipment and connection stays as it was
C22_RemovalTakesConnections ==
  /\ [](\A j \in 1..Len(connections) :
          /\ connections[j].sourceEquipmentId \in DOMAIN equipment
          /\ connections[j].targetEquipmentId \in DOMAIN equipment)
  /\ [][lastOp'.op = "removeEquipment" =>
          /\ DOMAIN equipment' = DOMAIN equipment \ {lastOp'.id}
          /\ \A e \in DOMAIN equipment' : equipment'[e] = equipment[e]
          /\ ConnKeys(connections') = ConnKeys(connections) \ Involving(connections, lastOp'.id)
          /\ \A c \in ConnKeys(connections') :
               ConnAt(connections', c) = ConnAt(connections, c)]_vars

\* the strainer was removed with its connection to the membrane unit, whose
\* own recycle connection is still there
C22_Witness ==
  /\ lastOp.op = "removeEquipment"
  /\ lastOp.id = <<"strainer", 1>>
  /\ DOMAIN equipment = {<<"ultrafiltration", 1>>}
  /\ Cardinality(lastOp.before) = 2
  /\ Len(connections) = 1

\* C23: every stream in the store is the stream of exactly one connection,
\* and the streamId of every connection names a stream in the store with the
\* connection's source and target
C23_ConnectionsMatchStreams ==
  /\ \A t \in DOMAIN streams :
       Cardinality({j \in 1..Len(connections) : connections[j].streamId = t}) = 1
  /\ \A j \in 1..Len(connections) :
       /\ connections[j].streamId \in DOMAIN streams
       /\ LET stream == streams[connections[j].streamId]
          IN /\ stream.sourceEquipmentId = connections[j].sourceEquipmentId
             /\ stream.sourcePort = connections[j].sourcePort
             /\ stream.targetEquipmentId = connections[j].targetEquipmentId
             /\ stream.targetPort = connections[j].targetPort

\* C24: in every solve request the stream entry of a connection out of a
\* feed tank carries the tank's inflow_rate as its flow rate, and its
\* temperature and each water-quality value as configured, wherever the
\* configured value is not negative
C24_FeedStreamsCarryTankValues ==
  \A i \in 1..Len(inflight) :
    \A id \in DOMAIN inflight[i].body.streams :
      LET entry == inflight[i].body.streams[id]
          eqs == inflight[i].snapshot.equipment
          source == entry.source_equipment
      IN (source \in DOMAIN eqs /\ eqs[source].type = "feed_tank") =>
           LET config == eqs[source].config
           IN /\ ("inflow_rate" \in DOMAIN config /\ config.inflow_rate >= 0) =>
                   entry.flow_rate = config.inflow_rate
              /\ \A k \in (QualityKeys \cup {"temperature"}) \cap DOMAIN config :
                   config[k] >= 0 => entry[k] = config[k]

\* C25: whenever selectedStream names a connection and no equipment is
\* selected, the property panel renders the stream's properties
C25_PanelShowsSelectedStream ==
  (selectedStream \in ConnKeys(connections) /\ selectedEquipment = Null) =>
    PropertyPanel = "stream properties"

\* the last step was not the start of a recalculation
Quiet == lastOp.op \notin {"updateEquipment", "addConnection", "importTimer", "calculate"}

\* C26: isCalculating is false whenever no request is in flight, and once
\* no further recalculation is started the store comes to rest with no
\* request in flight and isCalculating false
C26_CalculationActivityEnds ==
  /\ [](inflight = <<>> => ~isCalculating)
  /\ <>[]Quiet => <>[](inflight = <<>> /\ ~isCalculating)

\* two overlapping recalculations have both been answered
C26_Witness ==
  /\ inflight = <<>>
  /\ ~isCalculating
  /\ lastOp.op = "resolve"
  /\ lastOp.superseded

====
